---- MODULE Spec2Model ----
(***************************************************************************)
(* Command/reply layer of smartproxy (package redis, command.go).          *)
(*                                                                         *)
(* Bytes are sequences of one-character strings.  A decoded value is a     *)
(* record [type, s, n, l, null] whose "type" is the Go dynamic type; an    *)
(* error is a record [id, msg] whose "id" is the identity of the error     *)
(* value and whose "msg" is the text Error() returns.                      *)
(*                                                                         *)
(* int64 is modelled with a scaled width of IntBits bits; float64 is       *)
(* modelled as a fixed-point number of tenths.                             *)
(***************************************************************************)
EXTENDS Integers, Sequences, FiniteSets, TLC

VARIABLES cmd, last, cmds, blast, fin, fout

vars == <<cmd, last, cmds, blast, fin, fout>>

----------------------------------------------------------------------------
(* Bounds of the model *)

IntBits == 8
MaxStrLen == 2
MaxSliceLen == 4
MaxKeys == 3
BatchSize == 2

----------------------------------------------------------------------------
(* Characters and text *)

CR == "\r"
LF == "\n"
CRLF == <<CR, LF>>

Digits == <<"0", "1", "2", "3", "4", "5", "6", "7", "8", "9">>

IsDigit(c) == \E d \in 1..10 : Digits[d] = c

DigitOf(c) == (CHOOSE d \in 1..10 : Digits[d] = c) - 1

Int64Max == 2^(IntBits - 1) - 1
Int64Min == -(2^(IntBits - 1))

RECURSIVE UItoa(_)
UItoa(n) ==
    IF n < 10 THEN <<Digits[n + 1]>>
    ELSE UItoa(n \div 10) \o <<Digits[(n % 10) + 1]>>

\* util.Itoa: decimal text of an int
Itoa(n) == IF n < 0 THEN <<"-">> \o UItoa(-n) ELSE UItoa(n)

\* formatInt: decimal text of an int64
formatInt(n) == IF n < 0 THEN <<"-">> \o UItoa(-n) ELSE UItoa(n)

\* formatFloat: shortest decimal text of a float64 (tenths fixed point)
formatFloat(f) ==
    LET a == IF f < 0 THEN -f ELSE f
        sign == IF f < 0 THEN <<"-">> ELSE <<>>
    IN  IF a % 10 = 0 THEN sign \o UItoa(a \div 10)
        ELSE sign \o UItoa(a \div 10) \o <<".">> \o <<Digits[(a % 10) + 1]>>

RECURSIVE DigitsValue(_)
DigitsValue(s) ==
    IF Len(s) = 0 THEN 0
    ELSE 10 * DigitsValue(SubSeq(s, 1, Len(s) - 1)) + DigitOf(s[Len(s)])

AllDigits(s) == Len(s) > 0 /\ \A i \in 1..Len(s) : IsDigit(s[i])

\* strconv.Quote restricted to the characters of the model
RECURSIVE QuoteBody(_)
QuoteBody(s) ==
    IF Len(s) = 0 THEN <<>>
    ELSE (IF s[1] = CR THEN <<"\\", "r">>
          ELSE IF s[1] = LF THEN <<"\\", "n">>
          ELSE <<s[1]>>) \o QuoteBody(Tail(s))

Quote(s) == <<"\"">> \o QuoteBody(s) \o <<"\"">>

----------------------------------------------------------------------------
(* Errors *)

NilMsg == <<"r", "e", "d", "i", "s", ":", " ", "n", "i", "l">>
TypeAssertedMsg == <<"T", "y", "p", "e", "A", "s", "s", "e", "r", "t", "e", "d", "E", "r", "r">>
EOFMsg == <<"E", "O", "F">>
BoolShapeMsg == <<"g", "o", "t", " ", "%", "!", "T", "(", "M", "I", "S", "S", "I", "N", "G", ")", ",", " ", "w", "a", "n", "t", "e", "d", " ", "i", "n", "t", "6", "4", " ", "o", "r", " ", "s", "t", "r", "i", "n", "g">>
ParseIntPrefix == <<"s", "t", "r", "c", "o", "n", "v", ".", "P", "a", "r", "s", "e", "I", "n", "t", ":", " ", "p", "a", "r", "s", "i", "n", "g", " ">>
ParseFloatPrefix == <<"s", "t", "r", "c", "o", "n", "v", ".", "P", "a", "r", "s", "e", "F", "l", "o", "a", "t", ":", " ", "p", "a", "r", "s", "i", "n", "g", " ">>
SyntaxSuffix == <<":", " ", "i", "n", "v", "a", "l", "i", "d", " ", "s", "y", "n", "t", "a", "x">>
RangeSuffix == <<":", " ", "v", "a", "l", "u", "e", " ", "o", "u", "t", " ", "o", "f", " ", "r", "a", "n", "g", "e">>
CantParsePrefix == <<"r", "e", "d", "i", "s", ":", " ", "c", "a", "n", "'", "t", " ", "p", "a", "r", "s", "e", " ">>

\* the nil error
NoErr == [id |-> "nil", msg |-> <<>>]

\* the Nil sentinel
Nil == [id |-> "Nil", msg |-> NilMsg]

\* the unexpected-shape sentinel
TypeAssertedErr == [id |-> "TypeAssertedErr", msg |-> TypeAssertedMsg]

\* an error line sent by the server
ServerErr(line) == [id |-> "redisError", msg |-> line]

\* the reader ran out of bytes
EOFErr == [id |-> "io.EOF", msg |-> EOFMsg]

\* the frame is not RESP
ProtoErr(line) == [id |-> "protocol", msg |-> CantParsePrefix \o Quote(line)]

\* *strconv.NumError
NumError(prefix, s, suffix) == [id |-> "strconv.NumError", msg |-> prefix \o Quote(s) \o suffix]

\* an error made by a caller with errors.New
NewError(msg) == [id |-> "errors.New", msg |-> msg]

----------------------------------------------------------------------------
(* Values *)

Val(t, s, n, l, null) == [type |-> t, s |-> s, n |-> n, l |-> l, null |-> null]

NilVal == Val("nil", <<>>, 0, <<>>, TRUE)
StrVal(s) == Val("string", s, 0, <<>>, FALSE)
Int64Val(n) == Val("int64", <<>>, n, <<>>, FALSE)
IntVal(n) == Val("int", <<>>, n, <<>>, FALSE)
Float64Val(f) == Val("float64", <<>>, f, <<>>, FALSE)
BoolVal(b) == Val("bool", <<>>, IF b THEN 1 ELSE 0, <<>>, FALSE)
DurationVal(n) == Val("time.Duration", <<>>, n, <<>>, FALSE)
SliceVal(l) == Val("[]interface{}", <<>>, 0, l, FALSE)
TypedSlice(t, l) == Val(t, <<>>, 0, l, FALSE)
NilSlice(t) == Val(t, <<>>, 0, <<>>, TRUE)

\* strconv.ParseInt(s, 10, 64): [v, err]
ParseInt(s) ==
    LET neg == Len(s) > 0 /\ s[1] = "-"
        signed == Len(s) > 0 /\ (s[1] = "-" \/ s[1] = "+")
        body == IF signed THEN Tail(s) ELSE s
    IN  IF ~AllDigits(body)
        THEN [v |-> 0, err |-> NumError(ParseIntPrefix, s, SyntaxSuffix)]
        ELSE LET m == DigitsValue(body)
                 v == IF neg THEN -m ELSE m
             IN  IF v > Int64Max
                 THEN [v |-> Int64Max, err |-> NumError(ParseIntPrefix, s, RangeSuffix)]
                 ELSE IF v < Int64Min
                 THEN [v |-> Int64Min, err |-> NumError(ParseIntPrefix, s, RangeSuffix)]
                 ELSE [v |-> v, err |-> NoErr]

\* strconv.ParseFloat(s, 64) on decimal texts with at most one fraction digit
\* ([+-]digits, [+-]digits., [+-]digits.d, [+-].d): [v, err]
ParseFloat(s) ==
    LET neg == Len(s) > 0 /\ s[1] = "-"
        signed == Len(s) > 0 /\ (s[1] = "-" \/ s[1] = "+")
        body == IF signed THEN Tail(s) ELSE s
        n == Len(body)
        dotAt == IF n >= 1 /\ body[n] = "." THEN n
                 ELSE IF n >= 2 /\ body[n - 1] = "." THEN n - 1
                 ELSE 0
        whole == IF dotAt = 0 THEN body ELSE SubSeq(body, 1, dotAt - 1)
        frac == IF dotAt = 0 THEN <<>> ELSE SubSeq(body, dotAt + 1, n)
        ok == /\ \A i \in 1..Len(whole) : IsDigit(whole[i])
              /\ \A i \in 1..Len(frac) : IsDigit(frac[i])
              /\ Len(whole) + Len(frac) > 0
    IN  IF ~ok
        THEN [v |-> 0, err |-> NumError(ParseFloatPrefix, s, SyntaxSuffix)]
        ELSE LET m == 10 * DigitsValue(whole) + DigitsValue(frac)
             IN  [v |-> IF neg THEN -m ELSE m, err |-> NoErr]

----------------------------------------------------------------------------
(* Commands *)

Variants ==
    {"Cmd", "SliceCmd", "StatusCmd", "IntCmd", "DurationCmd", "BoolCmd",
     "StringCmd", "FloatCmd", "StringSliceCmd", "BoolSliceCmd",
     "StringStringMapCmd", "StringIntMapCmd", "ZSliceCmd", "ScanCmd",
     "ClusterSlotCmd"}

\* time.Millisecond and time.Second, in milliseconds
Millisecond == 1
Second == 1000

\* a nil *time.Duration, and a pointer to d
NoTimeout == <<>>
TimeoutOf(d) == <<d>>

\* the Go type of the val field of each variant
ValType(variant) ==
    CASE variant = "Cmd" -> "nil"
      [] variant = "SliceCmd" -> "[]interface{}"
      [] variant = "StatusCmd" -> "string"
      [] variant = "IntCmd" -> "int64"
      [] variant = "DurationCmd" -> "time.Duration"
      [] variant = "BoolCmd" -> "bool"
      [] variant = "StringCmd" -> "string"
      [] variant = "FloatCmd" -> "float64"
      [] variant = "StringSliceCmd" -> "[]string"
      [] variant = "BoolSliceCmd" -> "[]bool"
      [] variant = "StringStringMapCmd" -> "map[string]string"
      [] variant = "StringIntMapCmd" -> "map[string]int64"
      [] variant = "ZSliceCmd" -> "[]Z"
      [] variant = "ScanCmd" -> "nil"
      [] variant = "ClusterSlotCmd" -> "[]ClusterSlotInfo"

\* the zero value Go gives a field of type t
ZeroOf(t) ==
    CASE t = "string" -> StrVal(<<>>)
      [] t = "int64" -> Int64Val(0)
      [] t = "time.Duration" -> DurationVal(0)
      [] t = "bool" -> BoolVal(FALSE)
      [] t = "float64" -> Float64Val(0)
      [] t = "nil" -> NilVal
      [] OTHER -> NilSlice(t)

\* a command struct as a composite literal leaves it
baseCmd(variant, args, pos, precision) ==
    [variant |-> variant,
     _args |-> args,
     _clusterKeyPos |-> pos,
     _readTimeout |-> NoTimeout,
     _writeTimeout |-> NoTimeout,
     err |-> NoErr,
     val |-> ZeroOf(ValType(variant)),
     cursor |-> 0,
     keys |-> NilSlice("[]string"),
     precision |-> precision]

NewCmd(args) == baseCmd("Cmd", args, 0, 0)
NewSliceCmd(args) == baseCmd("SliceCmd", args, 1, 0)
NewStatusCmd(args) == baseCmd("StatusCmd", args, 1, 0)
newKeylessStatusCmd(args) == baseCmd("StatusCmd", args, 0, 0)
NewIntCmd(args) == baseCmd("IntCmd", args, 1, 0)
NewDurationCmd(precision, args) == baseCmd("DurationCmd", args, 1, precision)
NewBoolCmd(args) == baseCmd("BoolCmd", args, 1, 0)
NewStringCmd(args) == baseCmd("StringCmd", args, 1, 0)
NewFloatCmd(args) == baseCmd("FloatCmd", args, 1, 0)
NewStringSliceCmd(args) == baseCmd("StringSliceCmd", args, 1, 0)
NewBoolSliceCmd(args) == baseCmd("BoolSliceCmd", args, 1, 0)
NewStringStringMapCmd(args) == baseCmd("StringStringMapCmd", args, 1, 0)
NewStringIntMapCmd(args) == baseCmd("StringIntMapCmd", args, 1, 0)
NewZSliceCmd(args) == baseCmd("ZSliceCmd", args, 1, 0)
NewScanCmd(args) == baseCmd("ScanCmd", args, 1, 0)
NewClusterSlotCmd(args) == baseCmd("ClusterSlotCmd", args, 1, 0)

Err(c) == IF c.err # NoErr THEN c.err ELSE NoErr

args(c) == c._args

readTimeout(c) == c._readTimeout

writeTimeout(c) == c._writeTimeout

setReadTimeout(c, d) == [c EXCEPT !._readTimeout = TimeoutOf(d)]

setWriteTimeout(c, d) == [c EXCEPT !._writeTimeout = TimeoutOf(d)]

\* clusterKey as it would be if position 0 counted as a key position
clusterKeyFromZero(c) ==
    IF c._clusterKeyPos >= 0 /\ c._clusterKeyPos < Len(c._args)
    THEN c._args[c._clusterKeyPos + 1]
    ELSE ""

\* Go indexes _args from 0
clusterKey(c) ==
    IF c._clusterKeyPos > 0 /\ c._clusterKeyPos < Len(c._args)
    THEN c._args[c._clusterKeyPos + 1]
    ELSE ""

setErr(c, e) == [c EXCEPT !.err = e]

\* reset as it would be if ScanCmd.reset forgot the keys
resetKeepsKeys(c) ==
    IF c.variant = "ScanCmd" THEN [c EXCEPT !.cursor = 0, !.err = NoErr]
    ELSE [c EXCEPT !.val = ZeroOf(ValType(c.variant)), !.err = NoErr]

reset(c) ==
    CASE c.variant = "Cmd" -> [c EXCEPT !.val = NilVal, !.err = NoErr]
      [] c.variant = "SliceCmd" ->
            [c EXCEPT !.val = NilSlice("[]interface{}"), !.err = NoErr]
      [] c.variant = "StatusCmd" -> [c EXCEPT !.val = StrVal(<<>>), !.err = NoErr]
      [] c.variant = "IntCmd" -> [c EXCEPT !.val = Int64Val(0), !.err = NoErr]
      [] c.variant = "DurationCmd" -> [c EXCEPT !.val = DurationVal(0), !.err = NoErr]
      [] c.variant = "BoolCmd" -> [c EXCEPT !.val = BoolVal(FALSE), !.err = NoErr]
      [] c.variant = "StringCmd" -> [c EXCEPT !.val = StrVal(<<>>), !.err = NoErr]
      [] c.variant = "FloatCmd" -> [c EXCEPT !.val = Float64Val(0), !.err = NoErr]
      [] c.variant = "StringSliceCmd" ->
            [c EXCEPT !.val = NilSlice("[]string"), !.err = NoErr]
      [] c.variant = "BoolSliceCmd" ->
            [c EXCEPT !.val = NilSlice("[]bool"), !.err = NoErr]
      [] c.variant = "StringStringMapCmd" ->
            [c EXCEPT !.val = NilSlice("map[string]string"), !.err = NoErr]
      [] c.variant = "StringIntMapCmd" ->
            [c EXCEPT !.val = NilSlice("map[string]int64"), !.err = NoErr]
      [] c.variant = "ZSliceCmd" -> [c EXCEPT !.val = NilSlice("[]Z"), !.err = NoErr]
      [] c.variant = "ScanCmd" ->
            [c EXCEPT !.cursor = 0, !.keys = NilSlice("[]string"), !.err = NoErr]
      [] c.variant = "ClusterSlotCmd" ->
            [c EXCEPT !.val = NilSlice("[]ClusterSlotInfo"), !.err = NoErr]

\* setCmdsErr as it would be if the loop stopped one command early
RECURSIVE setCmdsErrSkipsLast(_, _, _)
setCmdsErrSkipsLast(batch, i, e) ==
    IF i >= Len(batch) THEN batch
    ELSE setCmdsErrSkipsLast([batch EXCEPT ![i] = setErr(batch[i], e)], i + 1, e)

RECURSIVE setCmdsErrFrom(_, _, _)
setCmdsErrFrom(batch, i, e) ==
    IF i > Len(batch) THEN batch
    ELSE setCmdsErrFrom([batch EXCEPT ![i] = setErr(batch[i], e)], i + 1, e)

setCmdsErr(batch, e) == setCmdsErrFrom(batch, 1, e)

RECURSIVE resetCmdsFrom(_, _)
resetCmdsFrom(batch, i) ==
    IF i > Len(batch) THEN batch
    ELSE resetCmdsFrom([batch EXCEPT ![i] = reset(batch[i])], i + 1)

resetCmds(batch) == resetCmdsFrom(batch, 1)

----------------------------------------------------------------------------
(* Reply formatters *)

NilBulk == <<"$", "-", "1">> \o CRLF

\* "$" len "\r\n" d "\r\n"
BulkFrame(d) == <<"$">> \o Itoa(Len(d)) \o CRLF \o d \o CRLF

\* fmt.Sprintf("-%s\r\n", err.Error())
ErrorFrame(e) == <<"-">> \o e.msg \o CRLF

\* the FormatSlice loop as it would be if the error frame were appended to the buffer
RECURSIVE FormatSliceLoopKeepsPrefix(_, _)
FormatSliceLoopKeepsPrefix(val, b) ==
    IF Len(val) = 0 THEN b
    ELSE IF val[1].type = "nil" THEN FormatSliceLoopKeepsPrefix(Tail(val), b \o NilBulk)
    ELSE IF val[1].type \in {"int", "int64"}
    THEN FormatSliceLoopKeepsPrefix(Tail(val), b \o BulkFrame(formatInt(val[1].n)))
    ELSE IF val[1].type = "string"
    THEN FormatSliceLoopKeepsPrefix(Tail(val), b \o BulkFrame(val[1].s))
    ELSE IF val[1].type = "float64"
    THEN FormatSliceLoopKeepsPrefix(Tail(val), b \o BulkFrame(formatFloat(val[1].n)))
    ELSE b \o ErrorFrame(TypeAssertedErr)

RECURSIVE FormatSliceLoop(_, _)
FormatSliceLoop(val, b) ==
    IF Len(val) = 0 THEN b
    ELSE LET v == val[1]
         IN  IF v.type = "nil" THEN FormatSliceLoop(Tail(val), b \o NilBulk)
             ELSE IF v.type = "int"
             THEN FormatSliceLoop(Tail(val), b \o BulkFrame(formatInt(v.n)))
             ELSE IF v.type = "int64"
             THEN FormatSliceLoop(Tail(val), b \o BulkFrame(formatInt(v.n)))
             ELSE IF v.type = "string"
             THEN FormatSliceLoop(Tail(val), b \o BulkFrame(v.s))
             ELSE IF v.type = "float64"
             THEN FormatSliceLoop(Tail(val), b \o BulkFrame(formatFloat(v.n)))
             ELSE ErrorFrame(TypeAssertedErr)

FormatSlice(val) == FormatSliceLoop(val, <<"*">> \o Itoa(Len(val)) \o CRLF)

FormatStatus(val) == <<"+">> \o val \o CRLF

FormatInt(val) == <<":">> \o formatInt(val) \o CRLF

formatMs(val) == formatInt(val \div Millisecond)

formatSec(val) == formatInt(val \div Second)

FormatDuration(val, pre) ==
    <<":">> \o (IF pre = Millisecond THEN formatMs(val) ELSE formatSec(val)) \o CRLF

FormatBool(val) == <<":">> \o (IF val THEN <<"1">> ELSE <<"0">>) \o CRLF

\* FormatString as it would be if the length counted the terminator
FormatStringCountsTerminator(val) == <<"$">> \o Itoa(Len(val) + 2) \o CRLF \o val \o CRLF

FormatString(val) == <<"$">> \o Itoa(Len(val)) \o CRLF \o val \o CRLF

FormatFloat(val) ==
    LET d == formatFloat(val)
    IN  <<"$">> \o Itoa(Len(d)) \o CRLF \o d \o CRLF

RECURSIVE FormatStringSliceLoop(_, _)
FormatStringSliceLoop(val, b) ==
    IF Len(val) = 0 THEN b
    ELSE FormatStringSliceLoop(Tail(val),
            b \o <<"$">> \o Itoa(Len(val[1])) \o CRLF \o val[1] \o CRLF)

FormatStringSlice(val) ==
    FormatStringSliceLoop(val, <<"*">> \o Itoa(Len(val)) \o CRLF)

\* the error branch shared by the Reply methods that re-encode
ErrReply(err) == IF err.msg = NilMsg THEN NilBulk ELSE ErrorFrame(err)

\* the texts of a []string value
Strings(v) == [i \in 1..Len(v.l) |-> v.l[i].s]

\* Reply(): [some, b]; some = FALSE is the nil byte slice
NoReply == [some |-> FALSE, b |-> <<>>]
Bytes(b) == [some |-> TRUE, b |-> b]

Reply(c) ==
    CASE c.variant = "SliceCmd" ->
            IF Err(c) # NoErr THEN Bytes(ErrReply(Err(c)))
            ELSE Bytes(FormatSlice(c.val.l))
      [] c.variant = "StatusCmd" ->
            IF Err(c) # NoErr THEN Bytes(ErrReply(Err(c)))
            ELSE Bytes(FormatStatus(c.val.s))
      [] c.variant = "IntCmd" ->
            IF Err(c) # NoErr THEN Bytes(ErrReply(Err(c)))
            ELSE Bytes(FormatInt(c.val.n))
      [] c.variant = "DurationCmd" ->
            IF Err(c) # NoErr THEN Bytes(ErrReply(Err(c)))
            ELSE Bytes(FormatDuration(c.val.n, c.precision))
      [] c.variant = "BoolCmd" ->
            IF Err(c) # NoErr THEN Bytes(ErrReply(Err(c)))
            ELSE Bytes(FormatBool(c.val.n = 1))
      [] c.variant = "StringCmd" ->
            IF Err(c) # NoErr THEN Bytes(ErrReply(Err(c)))
            ELSE Bytes(FormatString(c.val.s))
      [] c.variant = "FloatCmd" ->
            IF Err(c) # NoErr THEN Bytes(ErrReply(Err(c)))
            ELSE Bytes(FormatFloat(c.val.n))
      [] c.variant = "StringSliceCmd" ->
            IF Err(c) # NoErr THEN Bytes(ErrReply(Err(c)))
            ELSE Bytes(FormatStringSlice(Strings(c.val)))
      [] OTHER -> NoReply

----------------------------------------------------------------------------
(* Wire decoder: one RESP frame from the bytes rd, starting at position p *)

Decoded(v, e, next) == [val |-> v, err |-> e, next |-> next]

\* the position of the first CRLF at or after p, or 0
LineEnd(rd, p) ==
    LET ends == {i \in p..(Len(rd) - 1) : rd[i] = CR /\ rd[i + 1] = LF}
    IN  IF ends = {} THEN 0 ELSE CHOOSE i \in ends : \A j \in ends : i <= j

RECURSIVE DecodeFrame(_, _), DecodeN(_, _, _, _)

\* the frame whose first line is `line`; rest is the line after its type byte, n is
\* rest read as an integer, next the position after the line
DecodeLine(rd, line, rest, n, next) ==
    IF Len(line) = 0 THEN Decoded(NilVal, ProtoErr(line), next)
    ELSE IF line[1] = "+" THEN Decoded(StrVal(rest), NoErr, next)
    ELSE IF line[1] = "-" THEN Decoded(NilVal, ServerErr(rest), next)
    ELSE IF line[1] = ":" THEN
         IF n.err # NoErr THEN Decoded(NilVal, n.err, next)
         ELSE Decoded(Int64Val(n.v), NoErr, next)
    ELSE IF line[1] = "$" THEN
         IF n.err # NoErr \/ n.v < -1 THEN Decoded(NilVal, ProtoErr(line), next)
         ELSE IF n.v = -1 THEN Decoded(NilVal, Nil, next)
         ELSE IF next + n.v + 1 > Len(rd) THEN Decoded(NilVal, EOFErr, Len(rd) + 1)
         ELSE IF SubSeq(rd, next + n.v, next + n.v + 1) # CRLF
         THEN Decoded(NilVal, ProtoErr(line), next + n.v + 2)
         ELSE Decoded(StrVal(SubSeq(rd, next, next + n.v - 1)), NoErr, next + n.v + 2)
    ELSE IF line[1] = "*" THEN
         IF n.err # NoErr \/ n.v < -1 THEN Decoded(NilVal, ProtoErr(line), next)
         ELSE IF n.v = -1 THEN Decoded(NilVal, Nil, next)
         ELSE DecodeN(rd, next, n.v, <<>>)
    ELSE Decoded(NilVal, ProtoErr(line), next)

\* the frame whose first line ends at position e (0: there is no line)
DecodeAt(rd, p, e) ==
    IF e = 0 THEN Decoded(NilVal, EOFErr, Len(rd) + 1)
    ELSE DecodeLine(rd, SubSeq(rd, p, e - 1), SubSeq(rd, p + 1, e - 1),
                    ParseInt(SubSeq(rd, p + 1, e - 1)), e + 2)

DecodeFrame(rd, p) == DecodeAt(rd, p, LineEnd(rd, p))

\* the child frame f decoded, n children (f included) still to collect: a Nil child
\* is a nil element, any other error ends the decode
DecodeChild(rd, n, acc, f) ==
    IF f.err = Nil THEN DecodeN(rd, f.next, n - 1, Append(acc, NilVal))
    ELSE IF f.err # NoErr THEN f
    ELSE DecodeN(rd, f.next, n - 1, Append(acc, f.val))

DecodeN(rd, p, n, acc) ==
    IF n = 0 THEN Decoded(SliceVal(acc), NoErr, p)
    ELSE DecodeChild(rd, n, acc, DecodeFrame(rd, p))

Narrowed(v) == [val |-> v, err |-> NoErr]
NotNarrowed(e) == [val |-> NilVal, err |-> e]

AllOfType(l, t) == \A i \in 1..Len(l) : l[i].type = t

parseSlice(l) == Narrowed(SliceVal(l))

parseStringSlice(l) ==
    IF AllOfType(l, "string") THEN Narrowed(TypedSlice("[]string", l))
    ELSE NotNarrowed(TypeAssertedErr)

parseBoolSlice(l) ==
    IF AllOfType(l, "int64")
    THEN Narrowed(TypedSlice("[]bool", [i \in 1..Len(l) |-> BoolVal(l[i].n = 1)]))
    ELSE NotNarrowed(TypeAssertedErr)

\* the pairs of a map, a later value for a key replacing the earlier one
RECURSIVE MapOf(_, _)
MapOf(l, acc) ==
    IF Len(l) < 2 THEN acc
    ELSE LET at == {i \in 1..Len(acc) : i % 2 = 1 /\ acc[i] = l[1]}
         IN  IF at = {} THEN MapOf(SubSeq(l, 3, Len(l)), acc \o <<l[1], l[2]>>)
             ELSE MapOf(SubSeq(l, 3, Len(l)),
                        [acc EXCEPT ![(CHOOSE i \in at : TRUE) + 1] = l[2]])

parseStringStringMap(l) ==
    IF AllOfType(l, "string") /\ Len(l) % 2 = 0
    THEN Narrowed(TypedSlice("map[string]string", MapOf(l, <<>>)))
    ELSE NotNarrowed(TypeAssertedErr)

\* the first error among the texts at the even positions of l parsed by P, or NoErr
FirstErr(errs) ==
    LET bad == {i \in 1..Len(errs) : errs[i] # NoErr}
    IN  IF bad = {} THEN NoErr ELSE errs[CHOOSE i \in bad : \A j \in bad : i <= j]

parseStringIntMap(l) ==
    IF ~(AllOfType(l, "string") /\ Len(l) % 2 = 0) THEN NotNarrowed(TypeAssertedErr)
    ELSE LET e == FirstErr([i \in 1..Len(l) |->
                        IF i % 2 = 0 THEN ParseInt(l[i].s).err ELSE NoErr])
         IN  IF e # NoErr THEN NotNarrowed(e)
             ELSE Narrowed(TypedSlice("map[string]int64",
                    MapOf([i \in 1..Len(l) |->
                        IF i % 2 = 0 THEN Int64Val(ParseInt(l[i].s).v) ELSE l[i]], <<>>)))

parseZSlice(l) ==
    IF ~(AllOfType(l, "string") /\ Len(l) % 2 = 0) THEN NotNarrowed(TypeAssertedErr)
    ELSE LET e == FirstErr([i \in 1..Len(l) |->
                        IF i % 2 = 0 THEN ParseFloat(l[i].s).err ELSE NoErr])
         IN  IF e # NoErr THEN NotNarrowed(e)
             ELSE Narrowed(TypedSlice("[]Z",
                    [i \in 1..Len(l) |->
                        IF i % 2 = 0 THEN Float64Val(ParseFloat(l[i].s).v) ELSE l[i]]))

\* a record (start, end, address...) of a cluster-slots reply
IsSlotRecord(v) ==
    /\ v.type = "[]interface{}"
    /\ Len(v.l) >= 2
    /\ v.l[1].type = "int64"
    /\ v.l[2].type = "int64"
    /\ \A i \in 3..Len(v.l) : v.l[i].type = "string"

parseClusterSlotInfoSlice(l) ==
    IF \A i \in 1..Len(l) : IsSlotRecord(l[i])
    THEN Narrowed(TypedSlice("[]ClusterSlotInfo",
            [i \in 1..Len(l) |-> TypedSlice("ClusterSlotInfo", l[i].l)]))
    ELSE NotNarrowed(TypeAssertedErr)

ElementParsers ==
    {"nil", "parseSlice", "parseStringSlice", "parseBoolSlice", "parseStringStringMap",
     "parseStringIntMap", "parseZSlice", "parseClusterSlotInfoSlice"}

ApplyParser(parser, l) ==
    CASE parser = "parseSlice" -> parseSlice(l)
      [] parser = "parseStringSlice" -> parseStringSlice(l)
      [] parser = "parseBoolSlice" -> parseBoolSlice(l)
      [] parser = "parseStringStringMap" -> parseStringStringMap(l)
      [] parser = "parseStringIntMap" -> parseStringIntMap(l)
      [] parser = "parseZSlice" -> parseZSlice(l)
      [] parser = "parseClusterSlotInfoSlice" -> parseClusterSlotInfoSlice(l)

\* what the element parser makes of the decoded frame f
Narrow(parser, f, r) == Decoded(r.val, r.err, f.next)

ParsedFrame(parser, f) ==
    IF f.err # NoErr THEN Decoded(NilVal, f.err, f.next)
    ELSE IF f.val.type = "[]interface{}" /\ parser # "nil"
    THEN Narrow(parser, f, ApplyParser(parser, f.val.l))
    ELSE f

\* parseReply(rd, p): [val, err, next]; next - 1 bytes of rd are consumed
parseReply(rd, parser) == ParsedFrame(parser, DecodeFrame(rd, 1))

----------------------------------------------------------------------------
(* parseReply of each variant: [c, ret, panic, next, dtype, derr]          *)
(* c is the command afterwards, ret the error returned; panic is TRUE when *)
(* an unchecked type assertion or index aborts the method, and c is then   *)
(* the command as the assignments before the panic left it; dtype and derr *)
(* are the Go type of the value and the error the decoder handed over.     *)

Returned(c, e, r) ==
    [c |-> c, ret |-> e, panic |-> FALSE, next |-> r.next, dtype |-> r.val.type,
     derr |-> r.err]
Panicked(c, r) ==
    [c |-> c, ret |-> NoErr, panic |-> TRUE, next |-> r.next, dtype |-> r.val.type,
     derr |-> r.err]

CmdStore(c, r) ==
    Returned([c EXCEPT !.val = r.val, !.err = r.err], r.err, r)

CmdParseReply(c, rd) == CmdStore(c, parseReply(rd, "parseSlice"))

SliceCmdStore(c, r) ==
    IF r.err # NoErr THEN Returned([c EXCEPT !.err = r.err], r.err, r)
    ELSE IF r.val.type # "[]interface{}" THEN Panicked(c, r)
    ELSE Returned([c EXCEPT !.val = r.val], NoErr, r)

SliceCmdParseReply(c, rd) == SliceCmdStore(c, parseReply(rd, "parseSlice"))

StatusCmdStore(c, r) ==
    IF r.err # NoErr THEN Returned([c EXCEPT !.err = r.err], r.err, r)
    ELSE IF r.val.type # "string" THEN Panicked(c, r)
    ELSE Returned([c EXCEPT !.val = r.val], NoErr, r)

StatusCmdParseReply(c, rd) == StatusCmdStore(c, parseReply(rd, "nil"))

IntCmdStore(c, r) ==
    IF r.err # NoErr THEN Returned([c EXCEPT !.err = r.err], r.err, r)
    ELSE IF r.val.type # "int64" THEN Panicked(c, r)
    ELSE Returned([c EXCEPT !.val = r.val], NoErr, r)

IntCmdParseReply(c, rd) == IntCmdStore(c, parseReply(rd, "nil"))

DurationCmdStore(c, r) ==
    IF r.err # NoErr THEN Returned([c EXCEPT !.err = r.err], r.err, r)
    ELSE IF r.val.type # "int64" THEN Panicked(c, r)
    ELSE Returned([c EXCEPT !.val = DurationVal(r.val.n * c.precision)], NoErr, r)

DurationCmdParseReply(c, rd) == DurationCmdStore(c, parseReply(rd, "nil"))

\* BoolCmd.parseReply as it would be without the branch for Nil
BoolCmdStoreNilAsErr(c, r) ==
    IF r.err # NoErr THEN Returned([c EXCEPT !.err = r.err], r.err, r)
    ELSE IF r.val.type = "int64"
    THEN Returned([c EXCEPT !.val = BoolVal(r.val.n = 1)], NoErr, r)
    ELSE IF r.val.type = "string"
    THEN Returned([c EXCEPT !.val = BoolVal(r.val.s = <<"O", "K">>)], NoErr, r)
    ELSE Returned(c, [id |-> "fmt.Errorf", msg |-> BoolShapeMsg], r)

BoolCmdStore(c, r) ==
    IF r.err = Nil THEN Returned([c EXCEPT !.val = BoolVal(FALSE)], NoErr, r)
    ELSE IF r.err # NoErr THEN Returned([c EXCEPT !.err = r.err], r.err, r)
    ELSE IF r.val.type = "int64"
    THEN Returned([c EXCEPT !.val = BoolVal(r.val.n = 1)], NoErr, r)
    ELSE IF r.val.type = "string"
    THEN Returned([c EXCEPT !.val = BoolVal(r.val.s = <<"O", "K">>)], NoErr, r)
    ELSE Returned(c, [id |-> "fmt.Errorf", msg |-> BoolShapeMsg], r)

BoolCmdParseReply(c, rd) == BoolCmdStore(c, parseReply(rd, "nil"))

StringCmdStore(c, r) ==
    IF r.err # NoErr THEN Returned([c EXCEPT !.err = r.err], r.err, r)
    ELSE IF r.val.type # "string" THEN Panicked(c, r)
    ELSE Returned([c EXCEPT !.val = r.val], NoErr, r)

StringCmdParseReply(c, rd) == StringCmdStore(c, parseReply(rd, "nil"))

FloatCmdStore(c, r) ==
    IF r.err # NoErr THEN Returned([c EXCEPT !.err = r.err], r.err, r)
    ELSE IF r.val.type # "string" THEN Panicked(c, r)
    ELSE LET f == ParseFloat(r.val.s)
         IN  Returned([c EXCEPT !.val = Float64Val(f.v), !.err = f.err], f.err, r)

FloatCmdParseReply(c, rd) == FloatCmdStore(c, parseReply(rd, "nil"))

StringSliceCmdStore(c, r) ==
    IF r.err # NoErr THEN Returned([c EXCEPT !.err = r.err], r.err, r)
    ELSE IF r.val.type # "[]string" THEN Panicked(c, r)
    ELSE Returned([c EXCEPT !.val = r.val], NoErr, r)

StringSliceCmdParseReply(c, rd) == StringSliceCmdStore(c, parseReply(rd, "parseStringSlice"))

BoolSliceCmdStore(c, r) ==
    IF r.err # NoErr THEN Returned([c EXCEPT !.err = r.err], r.err, r)
    ELSE IF r.val.type # "[]bool" THEN Panicked(c, r)
    ELSE Returned([c EXCEPT !.val = r.val], NoErr, r)

BoolSliceCmdParseReply(c, rd) == BoolSliceCmdStore(c, parseReply(rd, "parseBoolSlice"))

StringStringMapCmdStore(c, r) ==
    IF r.err # NoErr THEN Returned([c EXCEPT !.err = r.err], r.err, r)
    ELSE IF r.val.type # "map[string]string" THEN Panicked(c, r)
    ELSE Returned([c EXCEPT !.val = r.val], NoErr, r)

StringStringMapCmdParseReply(c, rd) == StringStringMapCmdStore(c, parseReply(rd, "parseStringStringMap"))

StringIntMapCmdStore(c, r) ==
    IF r.err # NoErr THEN Returned([c EXCEPT !.err = r.err], r.err, r)
    ELSE IF r.val.type # "map[string]int64" THEN Panicked(c, r)
    ELSE Returned([c EXCEPT !.val = r.val], NoErr, r)

StringIntMapCmdParseReply(c, rd) == StringIntMapCmdStore(c, parseReply(rd, "parseStringIntMap"))

ZSliceCmdStore(c, r) ==
    IF r.err # NoErr THEN Returned([c EXCEPT !.err = r.err], r.err, r)
    ELSE IF r.val.type # "[]Z" THEN Panicked(c, r)
    ELSE Returned([c EXCEPT !.val = r.val], NoErr, r)

ZSliceCmdParseReply(c, rd) == ZSliceCmdStore(c, parseReply(rd, "parseZSlice"))

\* the keys loop as it would be if each key were put in front
RECURSIVE ScanKeysLoopPrepends(_, _)
ScanKeysLoopPrepends(keys, acc) ==
    IF Len(keys) = 0 THEN [keys |-> acc, panic |-> FALSE]
    ELSE IF keys[1].type # "string" THEN [keys |-> acc, panic |-> TRUE]
    ELSE ScanKeysLoopPrepends(Tail(keys), TypedSlice("[]string", <<keys[1]>> \o acc.l))

\* the keys loop: appends until an element is not a string
RECURSIVE ScanKeysLoop(_, _)
ScanKeysLoop(keys, acc) ==
    IF Len(keys) = 0 THEN [keys |-> acc, panic |-> FALSE]
    ELSE IF keys[1].type # "string" THEN [keys |-> acc, panic |-> TRUE]
    ELSE ScanKeysLoop(Tail(keys), TypedSlice("[]string", Append(acc.l, keys[1])))

\* after the keys loop
ScanCmdKeys(c1, r, k) ==
    IF k.panic THEN Panicked([c1 EXCEPT !.keys = k.keys], r)
    ELSE Returned([c1 EXCEPT !.keys = k.keys], NoErr, r)

\* after cmd.cursor, cmd.err = strconv.ParseInt(...)
ScanCmdCursor(c1, r, v) ==
    IF c1.err # NoErr THEN Returned(c1, c1.err, r)
    ELSE IF Len(v) < 2 THEN Panicked(c1, r)
    ELSE IF v[2].type # "[]interface{}" THEN Panicked(c1, r)
    ELSE ScanCmdKeys(c1, r, ScanKeysLoop(v[2].l, c1.keys))

ScanCmdParsed(c, r, n) == ScanCmdCursor([c EXCEPT !.cursor = n.v, !.err = n.err], r, r.val.l)

ScanCmdStore(c, r) ==
    IF r.err # NoErr THEN Returned([c EXCEPT !.err = r.err], r.err, r)
    ELSE IF r.val.type # "[]interface{}" THEN Panicked(c, r)
    ELSE IF Len(r.val.l) < 1 THEN Panicked(c, r)
    ELSE IF r.val.l[1].type # "string" THEN Panicked(c, r)
    ELSE ScanCmdParsed(c, r, ParseInt(r.val.l[1].s))

ScanCmdParseReply(c, rd) == ScanCmdStore(c, parseReply(rd, "parseSlice"))

ClusterSlotCmdStore(c, r) ==
    IF r.err # NoErr THEN Returned([c EXCEPT !.err = r.err], r.err, r)
    ELSE IF r.val.type # "[]ClusterSlotInfo" THEN Panicked(c, r)
    ELSE Returned([c EXCEPT !.val = r.val], NoErr, r)

ClusterSlotCmdParseReply(c, rd) == ClusterSlotCmdStore(c, parseReply(rd, "parseClusterSlotInfoSlice"))

\* the parseReply method of the command's variant (Cmder.parseReply)
CmderParseReply(c, rd) ==
    CASE c.variant = "Cmd" -> CmdParseReply(c, rd)
      [] c.variant = "SliceCmd" -> SliceCmdParseReply(c, rd)
      [] c.variant = "StatusCmd" -> StatusCmdParseReply(c, rd)
      [] c.variant = "IntCmd" -> IntCmdParseReply(c, rd)
      [] c.variant = "DurationCmd" -> DurationCmdParseReply(c, rd)
      [] c.variant = "BoolCmd" -> BoolCmdParseReply(c, rd)
      [] c.variant = "StringCmd" -> StringCmdParseReply(c, rd)
      [] c.variant = "FloatCmd" -> FloatCmdParseReply(c, rd)
      [] c.variant = "StringSliceCmd" -> StringSliceCmdParseReply(c, rd)
      [] c.variant = "BoolSliceCmd" -> BoolSliceCmdParseReply(c, rd)
      [] c.variant = "StringStringMapCmd" -> StringStringMapCmdParseReply(c, rd)
      [] c.variant = "StringIntMapCmd" -> StringIntMapCmdParseReply(c, rd)
      [] c.variant = "ZSliceCmd" -> ZSliceCmdParseReply(c, rd)
      [] c.variant = "ScanCmd" -> ScanCmdParseReply(c, rd)
      [] c.variant = "ClusterSlotCmd" -> ClusterSlotCmdParseReply(c, rd)

----------------------------------------------------------------------------
(* Inputs *)

\* the replies a server or a broken connection can put on the wire
Streams ==
    <<<<"+", "O", "K", CR, LF>>,
      <<":", "1", CR, LF>>,
      <<":", "9", "9", "9", CR, LF>>,
      <<"$", "-", "1", CR, LF>>,
      <<"$", "1", CR, LF, "3", CR, LF>>,
      <<"-", "E", "R", "R", CR, LF>>,
      <<"-", "r", "e", "d", "i", "s", ":", " ", "n", "i", "l", CR, LF>>,
      <<"*", "0", CR, LF>>,
      <<"*", "2", CR, LF, "$", "1", CR, LF, "3", CR, LF, "*", "2", CR, LF, "$", "2", CR, LF, "k", "1", CR, LF, "$", "2", CR, LF, "k", "2", CR, LF>>,
      <<"*", "1", CR, LF, "$", "1", CR, LF, "3", CR, LF>>,
      <<"*", "2", CR, LF, "$", "1", CR, LF, "x", CR, LF, "*", "0", CR, LF>>,
      <<"*", "2", CR, LF, ":", "3", CR, LF, "*", "0", CR, LF>>,
      <<"*", "2", CR, LF, "$", "1", CR, LF, "3", CR, LF, "$", "1", CR, LF, "k", CR, LF>>,
      <<"*", "2", CR, LF, "$", "1", CR, LF, "3", CR, LF, "*", "2", CR, LF, "$", "2", CR, LF, "k", "1", CR, LF, ":", "5", CR, LF>>,
      <<"*", "3", CR, LF, "$", "1", CR, LF, "a", CR, LF, ":", "1", CR, LF, "$", "-", "1", CR, LF>>,
      <<"*", "2", CR, LF, ":", "1", CR, LF, ":", "0", CR, LF>>,
      <<"*", "2", CR, LF, "$", "1", CR, LF, "a", CR, LF, "$", "1", CR, LF, "2", CR, LF>>,
      <<"*", "1", CR, LF, "*", "3", CR, LF, ":", "0", CR, LF, ":", "5", CR, LF, "$", "1", CR, LF, "a", CR, LF>>,
      <<>>>>

\* how a caller builds a command: the argument vector, and the timeouts it sets on
\* the new command (<<>>: the setter is not called)
Callers ==
    {[args |-> <<>>, rt |-> <<>>, wt |-> <<>>],
     [args |-> <<"PING">>, rt |-> <<Second>>, wt |-> <<>>],
     [args |-> <<"GET", "k">>, rt |-> <<>>, wt |-> <<Second>>],
     [args |-> <<"GET", "">>, rt |-> <<Second>>, wt |-> <<Millisecond>>]}

\* errors a supervising layer injects with setErr
InjectedErrs == {NoErr, Nil, EOFErr, NewError(NilMsg)}

\* the constructors of command.go applied to a, in source order
Constructors(a) ==
    <<NewCmd(a), NewSliceCmd(a), NewStatusCmd(a), newKeylessStatusCmd(a),
      NewIntCmd(a), NewDurationCmd(Millisecond, a), NewDurationCmd(Second, a),
      NewBoolCmd(a), NewStringCmd(a), NewFloatCmd(a), NewStringSliceCmd(a),
      NewBoolSliceCmd(a), NewStringStringMapCmd(a), NewStringIntMapCmd(a),
      NewZSliceCmd(a), NewScanCmd(a), NewClusterSlotCmd(a)>>

\* every command a constructor of command.go returns for a
Constructed(a) == {Constructors(a)[k] : k \in 1..Len(Constructors(a))}

----------------------------------------------------------------------------
(* One command driven through its lifecycle *)

\* the commands a caller can hold right after building them
Built(by) ==
    {LET c1 == IF by.rt = <<>> THEN c ELSE setReadTimeout(c, by.rt[1])
     IN  IF by.wt = <<>> THEN c1 ELSE setWriteTimeout(c1, by.wt[1])
     : c \in Constructed(by.args)}

\* the last call on cmd: its name, the error it returned, whether it panicked, the
\* Go type of the value and the error the decoder handed it, and what it gave back
Call(op, ret, panic, dtype, derr, out, key, e) ==
    [op |-> op, ret |-> ret, panic |-> panic, dtype |-> dtype, derr |-> derr,
     out |-> out, key |-> key, e |-> e]

Idle == <<>>

Init ==
    /\ \E by \in Callers : cmd \in Built(by)
    /\ last = Call("new", NoErr, FALSE, "", NoErr, NoReply, "", NoErr)
    /\ cmds = Idle
    /\ blast = Idle
    /\ fin = Idle
    /\ fout = Idle

Others == UNCHANGED <<cmds, blast, fin, fout>>

Parsed(r) ==
    /\ Len(r.c.keys.l) <= MaxKeys
    /\ cmd' = r.c
    /\ last' = Call("parseReply", r.ret, r.panic, r.dtype, r.derr, NoReply, "", NoErr)
    /\ Others

DoParseReply == \E i \in 1..Len(Streams) : Parsed(CmderParseReply(cmd, Streams[i]))

DoSetErr ==
    \E e \in InjectedErrs :
        /\ cmd' = setErr(cmd, e)
        /\ last' = Call("setErr", NoErr, FALSE, "", NoErr, NoReply, "", e)
        /\ Others

DoReset ==
    /\ cmd' = reset(cmd)
    /\ last' = Call("reset", NoErr, FALSE, "", NoErr, NoReply, "", NoErr)
    /\ Others

DoReply ==
    /\ cmd' = cmd
    /\ last' = Call("Reply", NoErr, FALSE, "", NoErr, Reply(cmd), "", NoErr)
    /\ Others

DoClusterKey ==
    /\ cmd' = cmd
    /\ last' = Call("clusterKey", NoErr, FALSE, "", NoErr, NoReply, clusterKey(cmd), NoErr)
    /\ Others

Next ==
    \/ DoParseReply
    \/ DoSetErr
    \/ DoReset
    \/ DoReply
    \/ DoClusterKey

Spec == Init /\ [][Next]_vars

----------------------------------------------------------------------------
(* Properties of one command *)

\* C1: whenever an error is stored, Reply() of every variant is the error frame
\* "-<message>\r\n", or the nil bulk frame "$-1\r\n" when the error is Nil; it is never
\* absent and never a value frame.
C1_ErrorReply ==
    (last.op = "Reply" /\ Err(cmd) # NoErr) =>
        last.out = Bytes(IF Err(cmd) = Nil THEN NilBulk ELSE ErrorFrame(Err(cmd)))

\* the Go types of decoded values a variant narrows
Accepts(variant, dtype) ==
    CASE variant = "Cmd" -> TRUE
      [] variant = "BoolCmd" -> dtype \in {"int64", "string"}
      [] variant = "ScanCmd" -> dtype = "[]interface{}"
      [] OTHER -> dtype = ValType(variant)

\* C2: parseReply of every variant, given a decoded value of a shape the variant cannot
\* narrow, does not panic, returns TypeAssertedErr and leaves Err() = TypeAssertedErr.
C2_UnexpectedShape ==
    last.op = "parseReply" =>
        /\ ~last.panic
        /\ (last.derr = NoErr /\ ~Accepts(cmd.variant, last.dtype)) =>
                (last.ret = TypeAssertedErr /\ Err(cmd) = TypeAssertedErr)

\* C3: reset() of every variant, from every state, leaves the value at the zero value
\* of the variant and Err() nil, and leaves args(), clusterKey() and the timeouts as
\* they were.
C3_ResetClears ==
    [][last'.op = "reset" =>
        /\ cmd'.val = ZeroOf(ValType(cmd.variant))
        /\ cmd'.cursor = 0
        /\ cmd'.keys = NilSlice("[]string")
        /\ Err(cmd') = NoErr
        /\ args(cmd') = args(cmd)
        /\ clusterKey(cmd') = clusterKey(cmd)
        /\ readTimeout(cmd') = readTimeout(cmd)
        /\ writeTimeout(cmd') = writeTimeout(cmd)]_vars

\* a ScanCmd built with a read timeout has just been reset
C3_Witness ==
    /\ last.op = "reset"
    /\ cmd.variant = "ScanCmd"
    /\ readTimeout(cmd) # NoTimeout
    /\ Len(args(cmd)) > 0

\* C5 as stated: after BoolCmd.parseReply consumes a reply that decodes to Nil, it has
\* returned no error and Result() is (false, nil).
C5_BoolNilResult ==
    (last.op = "parseReply" /\ cmd.variant = "BoolCmd" /\ last.derr = Nil) =>
        /\ ~last.panic
        /\ last.ret = NoErr
        /\ cmd.val = BoolVal(FALSE)
        /\ cmd.err = NoErr

\* C5 amended: BoolCmd.parseReply on a reply that decodes to Nil returns no error, sets
\* the value to false and leaves the stored error as it was; Result() is (false, nil)
\* when no error was stored before the call.
C5_BoolNilKeepsErr ==
    [][(last'.op = "parseReply" /\ cmd.variant = "BoolCmd" /\ last'.derr = Nil) =>
        /\ ~last'.panic
        /\ last'.ret = NoErr
        /\ cmd'.val = BoolVal(FALSE)
        /\ cmd'.err = cmd.err]_vars

\* a BoolCmd with no error stored has decoded Nil: Result() is (false, nil)
C5_Witness ==
    /\ last.op = "parseReply"
    /\ cmd.variant = "BoolCmd"
    /\ last.derr = Nil
    /\ cmd.val = BoolVal(FALSE)
    /\ cmd.err = NoErr

\* C7: clusterKey() is the argument at the key position pos when 0 < pos < len(args)
\* and the empty string otherwise; with pos = 0 it is never args[0].
C7_ClusterKey ==
    last.op = "clusterKey" =>
        /\ (0 < cmd._clusterKeyPos /\ cmd._clusterKeyPos < Len(cmd._args)) =>
                last.key = cmd._args[cmd._clusterKeyPos + 1]
        /\ ~(0 < cmd._clusterKeyPos /\ cmd._clusterKeyPos < Len(cmd._args)) =>
                last.key = ""
        /\ cmd._clusterKeyPos = 0 => last.key = ""

\* clusterKey() has returned the key of GET k
C7_Witness ==
    /\ last.op = "clusterKey"
    /\ cmd._args = <<"GET", "k">>
    /\ last.key = "k"

\* a decoded reply of the shape [c, [k1..kn]]
IsScanReply(r) ==
    /\ r.err = NoErr
    /\ r.val.type = "[]interface{}"
    /\ Len(r.val.l) = 2
    /\ r.val.l[1].type = "string"
    /\ r.val.l[2].type = "[]interface{}"
    /\ AllOfType(r.val.l[2].l, "string")

\* the claim of C8 for one reply r and the result res of ScanCmd.parseReply on it
ScanHolds(r, res) ==
    IsScanReply(r) =>
        /\ (~res.panic /\ res.ret = NoErr) =>
                /\ res.c.cursor = ParseInt(r.val.l[1].s).v
                /\ res.c.keys.l = r.val.l[2].l
        /\ ParseInt(r.val.l[1].s).err # NoErr =>
                (~res.panic /\ res.ret # NoErr /\ Err(res.c) # NoErr)

\* C8 as stated: in every state of a ScanCmd and for every reply [c, [k1..kn]], a
\* parseReply that succeeds leaves cursor = c and keys = [k1..kn] exactly, and one whose
\* c is no int64 fails with the error stored.
C8_ScanExact ==
    cmd.variant = "ScanCmd" =>
        \A i \in 1..Len(Streams) :
            ScanHolds(parseReply(Streams[i], "parseSlice"), ScanCmdParseReply(cmd, Streams[i]))

\* the same with the keys c held before the call taken into account
ScanAppends(c, r, res) ==
    IsScanReply(r) =>
        /\ (~res.panic /\ res.ret = NoErr) =>
                /\ res.c.cursor = ParseInt(r.val.l[1].s).v
                /\ res.c.keys.l = c.keys.l \o r.val.l[2].l
                /\ c.keys.l = <<>> => res.c.keys.l = r.val.l[2].l
        /\ ParseInt(r.val.l[1].s).err # NoErr =>
                (~res.panic /\ res.ret # NoErr /\ Err(res.c) # NoErr)
        /\ ParseInt(r.val.l[1].s).err = NoErr => (~res.panic /\ res.ret = NoErr)

\* C8 amended: a parseReply that succeeds on [c, [k1..kn]] leaves cursor = c and keys =
\* the keys held before the call followed by k1..kn, which is [k1..kn] exactly on a new
\* or reset command; one whose c is no int64 fails with the error stored.
C8_ScanAppends ==
    cmd.variant = "ScanCmd" =>
        \A i \in 1..Len(Streams) :
            ScanAppends(cmd, parseReply(Streams[i], "parseSlice"),
                        ScanCmdParseReply(cmd, Streams[i]))

\* a ScanCmd has decoded ["3", ["k1", "k2"]]: cursor 3 and keys [k1, k2]
C8_Witness ==
    /\ last.op = "parseReply"
    /\ cmd.variant = "ScanCmd"
    /\ ~last.panic
    /\ last.ret = NoErr
    /\ cmd.cursor = 3
    /\ Strings(cmd.keys) = <<<<"k", "1">>, <<"k", "2">>>>

\* C10: parseReply of every variant returns a non-nil error exactly when Err() is
\* non-nil afterwards (a Nil reply to BoolCmd gives neither).
C10_ReturnAgreesWithErr ==
    (last.op = "parseReply" /\ ~last.panic) =>
        ((last.ret # NoErr) <=> (Err(cmd) # NoErr))

----------------------------------------------------------------------------
(* A batch of commands, as a pipeline holds them *)

\* the replies the commands of a batch decode
BatchStreams == {Streams[1], Streams[2], Streams[9]}

\* the errors a pipeline sets on a whole batch
BatchErrs == {Nil, EOFErr}

\* the strides by which a batch picks its constructors: one variant, neighbours, a mix
Strides == {0, 1, 5}

\* a batch of BatchSize commands, the k-th built by the k-th caller in turn
Batch(start, stride) ==
    [k \in 1..BatchSize |->
        Constructors(IF k % 2 = 1 THEN <<"GET", "k">> ELSE <<"PING">>)
            [((start - 1 + (k - 1) * stride) % Len(Constructors(<<>>))) + 1]]

BatchCall(op, e) == [op |-> op, e |-> e]

InitBatch ==
    /\ \E start \in 1..Len(Constructors(<<>>)), stride \in Strides : cmds = Batch(start, stride)
    /\ blast = BatchCall("new", NoErr)
    /\ cmd = NewCmd(<<>>)
    /\ last = Call("new", NoErr, FALSE, "", NoErr, NoReply, "", NoErr)
    /\ fin = Idle
    /\ fout = Idle

BatchOthers == UNCHANGED <<cmd, last, fin, fout>>

BatchParsed(i, r) ==
    /\ Len(r.c.keys.l) <= MaxKeys
    /\ cmds' = [cmds EXCEPT ![i] = r.c]
    /\ blast' = BatchCall("parseReply", r.ret)
    /\ BatchOthers

DoBatchParseReply ==
    \E i \in 1..Len(cmds), rd \in BatchStreams : BatchParsed(i, CmderParseReply(cmds[i], rd))

DoSetCmdsErr ==
    \E e \in BatchErrs :
        /\ cmds' = setCmdsErr(cmds, e)
        /\ blast' = BatchCall("setCmdsErr", e)
        /\ BatchOthers

DoResetCmds ==
    /\ cmds' = resetCmds(cmds)
    /\ blast' = BatchCall("resetCmds", NoErr)
    /\ BatchOthers

NextBatch ==
    \/ DoBatchParseReply
    \/ DoSetCmdsErr
    \/ DoResetCmds

SpecBatch == InitBatch /\ [][NextBatch]_vars

\* C4: setCmdsErr(cmds, e) leaves every command of the batch with Err() = e and leaves
\* each command's decoded value (val, and cursor and keys of a ScanCmd) and its args()
\* as they were; the batch keeps its length.
C4_SetCmdsErr ==
    [][blast'.op = "setCmdsErr" =>
        /\ Len(cmds') = Len(cmds)
        /\ \A i \in 1..Len(cmds) :
            /\ Err(cmds'[i]) = blast'.e
            /\ cmds'[i].val = cmds[i].val
            /\ cmds'[i].cursor = cmds[i].cursor
            /\ cmds'[i].keys = cmds[i].keys
            /\ args(cmds'[i]) = args(cmds[i])]_vars

\* setCmdsErr(EOF) has run on a batch of different variants, one of which holds a
\* decoded value that is not its zero value and had no error stored
C4_Witness ==
    /\ blast.op = "setCmdsErr"
    /\ blast.e = EOFErr
    /\ \A i \in 1..Len(cmds) : Err(cmds[i]) = EOFErr
    /\ \E i, j \in 1..Len(cmds) :
        /\ cmds[i].variant # cmds[j].variant
        /\ cmds[i].val # reset(cmds[i]).val

----------------------------------------------------------------------------
(* The formatters applied to bounded inputs, and their output decoded again *)

\* the bytes a status or bulk string is made of
FmtAlphabet == {"a", "1", CR, LF}

\* every string of at most MaxStrLen bytes
FmtStrings == UNION {[1..n -> FmtAlphabet] : n \in 0..MaxStrLen}

\* the element values a []interface{} reply holds, and one FormatSlice does not support
SliceElems ==
    {NilVal, IntVal(1), Int64Val(-3), StrVal(<<"a">>), StrVal(<<>>), Float64Val(15),
     BoolVal(TRUE)}

FmtSlices == UNION {[1..n -> SliceElems] : n \in 0..MaxSliceLen}

\* what follows the frame on the stream
Trailer == <<":", "7", CR, LF>>

FmtIn(kind, v) == [kind |-> kind, v |-> v]

FmtInputs ==
    {FmtIn("Status", StrVal(s)) : s \in FmtStrings}
        \cup {FmtIn("String", StrVal(s)) : s \in FmtStrings}
        \cup {FmtIn("Int", Int64Val(n)) : n \in Int64Min..Int64Max}
        \cup {FmtIn("Bool", BoolVal(b)) : b \in BOOLEAN}
        \cup {FmtIn("Slice", SliceVal(l)) : l \in FmtSlices}

\* the formatter's bytes b and what parseReply made of b followed by Trailer
FmtOut(done, b, r) ==
    [done |-> done, b |-> b, val |-> r.c.val, err |-> Err(r.c), ret |-> r.ret,
     panic |-> r.panic, next |-> r.next]

NotParsed == [c |-> NewCmd(<<>>), ret |-> NoErr, panic |-> FALSE, next |-> 0]

InitFmt ==
    /\ fin \in FmtInputs
    /\ fout = FmtOut(FALSE, <<>>, NotParsed)
    /\ cmd = NewCmd(<<>>)
    /\ last = Call("new", NoErr, FALSE, "", NoErr, NoReply, "", NoErr)
    /\ cmds = Idle
    /\ blast = Idle

FmtOthers == UNCHANGED <<fin, cmd, last, cmds, blast>>

RoundTrip(kind, b, r) ==
    /\ ~fout.done
    /\ fin.kind = kind
    /\ fout' = FmtOut(TRUE, b, r)
    /\ FmtOthers

DoFormatStatus ==
    RoundTrip("Status", FormatStatus(fin.v.s),
              StatusCmdParseReply(NewStatusCmd(<<>>), FormatStatus(fin.v.s) \o Trailer))

DoFormatInt ==
    RoundTrip("Int", FormatInt(fin.v.n),
              IntCmdParseReply(NewIntCmd(<<>>), FormatInt(fin.v.n) \o Trailer))

DoFormatString ==
    RoundTrip("String", FormatString(fin.v.s),
              StringCmdParseReply(NewStringCmd(<<>>), FormatString(fin.v.s) \o Trailer))

DoFormatBool ==
    RoundTrip("Bool", FormatBool(fin.v.n = 1),
              BoolCmdParseReply(NewBoolCmd(<<>>), FormatBool(fin.v.n = 1) \o Trailer))

DoFormatSlice == RoundTrip("Slice", FormatSlice(fin.v.l), NotParsed)

NextFmt ==
    \/ DoFormatStatus
    \/ DoFormatInt
    \/ DoFormatString
    \/ DoFormatBool
    \/ DoFormatSlice

SpecFmt == InitFmt /\ [][NextFmt]_vars

Scalars == {"Status", "Int", "String", "Bool"}

\* the output of a round trip is the value put in, with no error, and the decoder
\* stopped right after the formatter's bytes
RoundTripExact ==
    /\ ~fout.panic
    /\ fout.ret = NoErr
    /\ fout.err = NoErr
    /\ fout.val = fin.v
    /\ fout.next = Len(fout.b) + 1

\* C6 as stated: for every Status, Int, String and Bool value v, parseReply of the same
\* variant on the formatter's bytes stores exactly v with no error and consumes exactly
\* the emitted frame.
C6_RoundTrip == (fout.done /\ fin.kind \in Scalars) => RoundTripExact

HasLineBreak(s) == \E i \in 1..Len(s) : s[i] \in {CR, LF}

\* C6 amended: the same for every Int, String and Bool value and for every Status
\* string that holds no CR and no LF byte.
C6_RoundTripNoLineBreak ==
    (fout.done /\ fin.kind \in Scalars /\ ~(fin.kind = "Status" /\ HasLineBreak(fin.v.s)))
        => RoundTripExact

\* the String "\r\n" has made the round trip through "$2\r\n\r\n\r\n"
C6_Witness ==
    /\ fout.done
    /\ RoundTripExact
    /\ fin.kind = "String"
    /\ fin.v.s = <<CR, LF>>
    /\ fout.b = <<"$", "2", CR, LF, CR, LF, CR, LF>>

\* the text of a slice element FormatSlice supports
ElemText(v) ==
    IF v.type = "string" THEN v.s
    ELSE IF v.type = "float64" THEN formatFloat(v.n)
    ELSE formatInt(v.n)

ElemFrame(v) ==
    IF v.type = "nil" THEN <<"$", "-", "1", CR, LF>>
    ELSE <<"$">> \o Itoa(Len(ElemText(v))) \o <<CR, LF>> \o ElemText(v) \o <<CR, LF>>

\* the frames of the first k elements of val, in order
RECURSIVE ElemFrames(_, _)
ElemFrames(val, k) == IF k = 0 THEN <<>> ELSE ElemFrames(val, k - 1) \o ElemFrame(val[k])

Supported == {"nil", "int", "int64", "string", "float64"}

\* C9: FormatSlice(val) is "*<len(val)>\r\n" followed by one frame per element in
\* input order, "$-1\r\n" for nil and "$<n>\r\n<text>\r\n" for an int, int64, string
\* or float64; with an element of another type it is the error frame of the
\* unexpected-shape error alone.
C9_FormatSlice ==
    (fout.done /\ fin.kind = "Slice") =>
        IF \A i \in 1..Len(fin.v.l) : fin.v.l[i].type \in Supported
        THEN fout.b = <<"*">> \o Itoa(Len(fin.v.l)) \o <<CR, LF>>
                        \o ElemFrames(fin.v.l, Len(fin.v.l))
        ELSE fout.b = <<"-">> \o TypeAssertedMsg \o <<CR, LF>>

\* FormatSlice has formatted ["a", 1, 1.5, nil]
C9_Witness ==
    /\ fout.done
    /\ fin.kind = "Slice"
    /\ fin.v.l = <<StrVal(<<"a">>), IntVal(1), Float64Val(15), NilVal>>
    /\ fout.b = <<"*", "4", CR, LF, "$", "1", CR, LF, "a", CR, LF, "$", "1", CR, LF, "1", CR, LF,
                  "$", "3", CR, LF, "1", ".", "5", CR, LF, "$", "-", "1", CR, LF>>

----------------------------------------------------------------------------
(* The nil reply of the re-encoding variants *)

\* the variants whose Reply() re-encodes the stored value or error
ReEncoders ==
    {"SliceCmd", "StatusCmd", "IntCmd", "DurationCmd", "BoolCmd", "StringCmd", "FloatCmd",
     "StringSliceCmd"}

\* C11: Reply() of a re-encoding variant with an error stored is the nil bulk frame
\* "$-1\r\n" only when that error is the Nil sentinel itself; every other error value,
\* whatever its message, is re-encoded as the error frame "-<message>\r\n".
C11_NilOnlyForSentinel ==
    (last.op = "Reply" /\ cmd.variant \in ReEncoders /\ Err(cmd) # NoErr) =>
        /\ (last.out = Bytes(<<"$", "-", "1", CR, LF>>)) <=> (Err(cmd) = Nil)
        /\ Err(cmd) # Nil => last.out = Bytes(<<"-">> \o Err(cmd).msg \o <<CR, LF>>)

====
